---- MODULE Spec2Model ----
(***************************************************************************)
(* State-machine model of the two kernel modules of the repository:        *)
(*   i2c_driver.c         SSD1306 + AHT20 driver, version 1.50             *)
(*   i2c_client_driver.c  the same devices behind two character devices,   *)
(*                        version 2.0                                      *)
(* One run loads one of the two modules, uses it and unloads it.  The bus  *)
(* and the kernel's registration calls are the environment: every         *)
(* registration and every transfer may succeed or fail.                    *)
(***************************************************************************)
EXTENDS Integers, Sequences, FiniteSets, TLC

(* ------------------------------ bounds -------------------------------- *)

\* Control-plane requests (ioctl calls) issued in one run.
MaxOps == 2

\* Concurrent callers of the sensor character device.
NumCallers == 2

(* ------------------------- program constants -------------------------- *)

EINVAL == 22
EFAULT == 14
ENODEV == 19
EREMOTEIO == 121

Files == {"i2c_driver", "i2c_client_driver"}
Devs == {"oled", "aht"}

\* Request codes a caller may pass to either character device.
Cmds == {"OLED_CLEAR", "OLED_FILL", "AHT20_READ_DATA", "UNKNOWN"}

\* Transport outcomes of the transfers of one loop: which of them fail.
FaultPlans == {"none", "first", "last", "all"}

TransferOk(plan, i, n) ==
    CASE plan = "none" -> TRUE
      [] plan = "first" -> i # 0
      [] plan = "last" -> i # n - 1
      [] OTHER -> FALSE

\* Values a byte received from the sensor takes in the model.
ByteSamples == {\h00, \h19, \h66, \h99, \h9A, \hFF}

\* Receive buffers the lifecycle model draws from.
RawSamples == { <<\h00, \h19, \h99, \h9A, \h66, \h66>>,
                <<\h1C, \hFF, \hFF, \hF0, \h00, \h00>> }

(* ----------------------- C integer arithmetic ------------------------- *)

RECURSIVE BitOr(_, _)
BitOr(a, b) ==
    IF a = 0 THEN b
    ELSE IF b = 0 THEN a
    ELSE (IF a % 2 = 1 \/ b % 2 = 1 THEN 1 ELSE 0) + 2 * BitOr(a \div 2, b \div 2)

RECURSIVE BitAnd(_, _)
BitAnd(a, b) ==
    IF a = 0 \/ b = 0 THEN 0
    ELSE (IF a % 2 = 1 /\ b % 2 = 1 THEN 1 ELSE 0) + 2 * BitAnd(a \div 2, b \div 2)

Shl(a, n) == a * 2^n
Shr(a, n) == a \div 2^n

\* A u32 is kept as two 16-bit halves, so that a product that wraps modulo
\* 2^32 is a value of the model.
u32(n) == [hi |-> (n \div 65536) % 65536, lo |-> n % 65536]

u32_mul(u, k) ==
    LET p == u.lo * k
    IN  [hi |-> (u.hi * k + p \div 65536) % 65536, lo |-> p % 65536]

\* u / 1048576: the low half is below 2^20, the quotient is hi / 16.
u32_div_1048576(u) == [hi |-> 0, lo |-> u.hi \div 16]

u32_sub(u, k) ==
    IF u.lo >= k THEN [hi |-> u.hi, lo |-> u.lo - k]
    ELSE [hi |-> (u.hi - 1) % 65536, lo |-> u.lo - k + 65536]

\* The conversion of a u32 to int on assignment.
to_int(u) ==
    IF u.hi >= 32768 THEN (u.hi - 65536) * 65536 + u.lo
    ELSE u.hi * 65536 + u.lo

\* d[k] of a C array kept as a sequence.
At(d, k) == d[k + 1]

(* --------------------------- bus events ------------------------------- *)

NoBytes == <<>>

\* i2c_master_send(client, buf, len): one write transfer.
i2c_master_send(d, buf, ok) ==
    [op |-> "send", dev |-> d, bytes |-> buf, ok |-> ok, ms |-> 0,
     fn |-> "-", call |-> 0, n |-> 1]

\* i2c_master_recv(client, buf, 6): one read transfer; buf is what the
\* device returned.
i2c_master_recv(d, buf, ok) ==
    [op |-> "recv", dev |-> d, bytes |-> IF ok THEN buf ELSE NoBytes, ok |-> ok,
     ms |-> 0, fn |-> "-", call |-> 0, n |-> 1]

msleep(ms) ==
    [op |-> "msleep", dev |-> "-", bytes |-> NoBytes, ok |-> TRUE, ms |-> ms,
     fn |-> "-", call |-> 0, n |-> 1]

\* The log keeps a run of identical consecutive transfers of one call as one
\* entry, with the number n of transfers in the run.
Runs(seq) ==
    LET starts == {i \in DOMAIN seq : i = 1 \/ seq[i] # seq[i - 1]}
        nth(k) == CHOOSE i \in starts : Cardinality({j \in starts : j <= i}) = k
        last(k) == IF k = Cardinality(starts) THEN Len(seq) ELSE nth(k + 1) - 1
    IN  [k \in 1..Cardinality(starts) |->
            [seq[nth(k)] EXCEPT !.n = last(k) - nth(k) + 1]]

\* The transfers of one function call, named after the function.
In(fn, seq) == Runs([i \in DOMAIN seq |-> [seq[i] EXCEPT !.fn = fn]])

\* What a transfer returns: the byte count, or a negative errno.
TransferRet(len, ok) == IF ok THEN len ELSE -EREMOTEIO

(* ------------------ i2c_driver.c: SSD1306 functions ------------------- *)

I2C_Write(buf, ok) == i2c_master_send("oled", buf, ok)

SSD1306_Write(is_cmd, byte, ok) ==
    I2C_Write(<<IF is_cmd THEN \h00 ELSE \h40, byte>>, ok)

SSD1306_InitCmds ==
    <<\hAE, \hD5, \h80, \hA8, \h3F, \hD3, \h00, \h40, \h8D, \h14, \h20, \h00,
      \hA1, \hC8, \hDA, \h12, \h81, \h80, \hD9, \hF1, \hDB, \h20, \hA4, \hA6,
      \h2E, \hAF>>

\* SSD1306_DisplayInit that gives up at the first write that fails.
SSD1306_DisplayInit_aborts(plan) ==
    LET N == Len(SSD1306_InitCmds)
        failed == {i \in 1..N : ~TransferOk(plan, i - 1, N)}
        stop == IF failed = {} THEN N
                ELSE CHOOSE i \in failed : \A j \in failed : i <= j
    IN  In("SSD1306_DisplayInit",
           <<msleep(100)>> \o
           [i \in 1..stop |->
               SSD1306_Write(TRUE, SSD1306_InitCmds[i], TransferOk(plan, i - 1, N))])

SSD1306_DisplayInit(plan) ==
    In("SSD1306_DisplayInit",
       <<msleep(100)>> \o
       [i \in 1..Len(SSD1306_InitCmds) |->
           SSD1306_Write(TRUE, SSD1306_InitCmds[i],
                         TransferOk(plan, i - 1, Len(SSD1306_InitCmds)))])

total == 128 * 8

\* SSD1306_Fill whose loop stops one transfer early.
SSD1306_Fill_short(byte, plan) ==
    In("SSD1306_Fill",
       [i \in 1..(total - 1) |->
           SSD1306_Write(FALSE, byte, TransferOk(plan, i - 1, total))])

SSD1306_Fill(byte, plan) ==
    In("SSD1306_Fill",
       [i \in 1..total |->
           SSD1306_Write(FALSE, byte, TransferOk(plan, i - 1, total))])

(* --------------- i2c_client_driver.c: SSD1306 functions --------------- *)

oled_write(mode, byte, ok) == i2c_master_send("oled", <<mode, byte>>, ok)

oled_init(plan) ==
    In("oled_init",
       <<msleep(100),
         oled_write(\h00, \hAE, TransferOk(plan, 0, 4)),
         oled_write(\h00, \hA8, TransferOk(plan, 1, 4)),
         oled_write(\h00, \h3F, TransferOk(plan, 2, 4)),
         oled_write(\h00, \hAF, TransferOk(plan, 3, 4))>>)

oled_clear(plan) ==
    In("oled_clear",
       [i \in 1..1024 |-> oled_write(\h40, \h00, TransferOk(plan, i - 1, 1024))])

oled_fill(plan) ==
    In("oled_fill",
       [i \in 1..1024 |-> oled_write(\h40, \hFF, TransferOk(plan, i - 1, 1024))])

\* oled_ioctl whose default case breaks instead of returning -EINVAL.
oled_ioctl_default_breaks(cmd, plan) ==
    CASE cmd = "OLED_CLEAR" -> [log |-> oled_clear(plan), ret |-> 0]
      [] cmd = "OLED_FILL" -> [log |-> oled_fill(plan), ret |-> 0]
      [] OTHER -> [log |-> <<>>, ret |-> 0]

\* oled_ioctl whose OLED_CLEAR case lacks its break and runs into OLED_FILL.
oled_ioctl_falls_through(cmd, plan) ==
    CASE cmd = "OLED_CLEAR" -> [log |-> oled_clear(plan) \o oled_fill(plan), ret |-> 0]
      [] cmd = "OLED_FILL" -> [log |-> oled_fill(plan), ret |-> 0]
      [] OTHER -> [log |-> <<>>, ret |-> -EINVAL]

\* oled_ioctl: the transfers it issues and the value it returns.
oled_ioctl(cmd, plan) ==
    CASE cmd = "OLED_CLEAR" -> [log |-> oled_clear(plan), ret |-> 0]
      [] cmd = "OLED_FILL" -> [log |-> oled_fill(plan), ret |-> 0]
      [] OTHER -> [log |-> <<>>, ret |-> -EINVAL]

(* ----------------------- AHT20: raw fields ---------------------------- *)

\* AHT20_raw_humidity that places the three bytes as a 24-bit field.
AHT20_raw_humidity_24bit(d) ==
    u32(BitOr(BitOr(Shl(At(d, 1), 16), Shl(At(d, 2), 8)), At(d, 3)))

\* i2c_driver.c, AHT20_ReadData: the two fields assembled from data[].
AHT20_raw_humidity(d) ==
    u32(BitOr(BitOr(Shl(At(d, 1), 12), Shl(At(d, 2), 4)), Shr(At(d, 3), 4)))

\* AHT20_raw_temperature without the mask that drops the humidity nibble.
AHT20_raw_temperature_unmasked(d) ==
    u32(BitOr(BitOr(Shl(At(d, 3), 16), Shl(At(d, 4), 8)), At(d, 5)))

AHT20_raw_temperature(d) ==
    u32(BitOr(BitOr(Shl(BitAnd(At(d, 3), \h0F), 16), Shl(At(d, 4), 8)), At(d, 5)))

AHT20_humidity(raw_humidity) ==
    to_int(u32_div_1048576(u32_mul(raw_humidity, 1000)))

AHT20_temperature(raw_temperature) ==
    to_int(u32_sub(u32_div_1048576(u32_mul(raw_temperature, 2000)), 500))

\* i2c_client_driver.c, aht20_read_raw: *h and *t.
aht20_read_raw_h(d) ==
    u32(BitOr(BitOr(Shl(At(d, 1), 12), Shl(At(d, 2), 4)), Shr(At(d, 3), 4)))

aht20_read_raw_t(d) ==
    u32(BitOr(BitOr(Shl(BitAnd(At(d, 3), \h0F), 16), Shl(At(d, 4), 8)), At(d, 5)))

\* i2c_client_driver.c, aht20_ioctl: data.humidity and data.temperature.
aht20_data_humidity(rh) ==
    to_int(u32_div_1048576(u32_mul(rh, 1000)))

aht20_data_temperature(rt) ==
    to_int(u32_sub(u32_div_1048576(u32_mul(rt, 2000)), 500))

NoReading == [set |-> FALSE, temperature |-> 0, humidity |-> 0]

Reading(t, h) == [set |-> TRUE, temperature |-> t, humidity |-> h]

(* ------------------- i2c_driver.c: AHT20 functions -------------------- *)

AHT20_Init(ok) ==
    [log |-> In("AHT20_Init",
                <<i2c_master_send("aht", <<\hBE, \h08, \h00>>, ok), msleep(40)>>),
     ret |-> TransferRet(3, ok)]

\* AHT20_ReadData: its transfers, its return value and what it stores
\* through the two pointers.  d is what the device returns to the read.
AHT20_ReadData(trig_ok, recv_ok, d) ==
    LET trigger == i2c_master_send("aht", <<\hAC, \h33, \h00>>, trig_ok)
        recv == i2c_master_recv("aht", d, recv_ok)
    IN  IF ~trig_ok
        THEN [log |-> In("AHT20_ReadData", <<trigger>>),
              ret |-> TransferRet(3, trig_ok), out |-> NoReading]
        ELSE IF ~recv_ok
        THEN [log |-> In("AHT20_ReadData", <<trigger, msleep(80), recv>>),
              ret |-> TransferRet(6, recv_ok), out |-> NoReading]
        ELSE [log |-> In("AHT20_ReadData", <<trigger, msleep(80), recv>>),
              ret |-> 0,
              out |-> Reading(AHT20_temperature(AHT20_raw_temperature(d)),
                              AHT20_humidity(AHT20_raw_humidity(d)))]

(* ---------------- i2c_client_driver.c: AHT20 functions ---------------- *)

aht20_trigger(ok) ==
    [log |-> In("aht20_trigger", <<i2c_master_send("aht", <<\hAC, \h33, \h00>>, ok)>>),
     ret |-> TransferRet(3, ok)]

\* aht20_read_raw: d is the content of its buffer after the read, the bytes
\* received or, when the read failed, whatever the stack held.
aht20_read_raw(recv_ok, d) ==
    [log |-> In("aht20_read_raw", <<msleep(80), i2c_master_recv("aht", d, recv_ok)>>),
     t |-> aht20_read_raw_t(d), h |-> aht20_read_raw_h(d), ret |-> 0]

\* aht20_ioctl: its transfers, its return value and what reaches the caller.
aht20_ioctl(cmd, trig_ok, recv_ok, d, copy_ok) ==
    IF cmd # "AHT20_READ_DATA"
    THEN [log |-> <<>>, ret |-> -EINVAL, out |-> NoReading]
    ELSE LET trig == aht20_trigger(trig_ok)
             raw == aht20_read_raw(recv_ok, d)
             t == aht20_data_temperature(raw.t)
             h == aht20_data_humidity(raw.h)
         IN  IF ~copy_ok
             THEN [log |-> trig.log \o raw.log, ret |-> -EFAULT, out |-> NoReading]
             ELSE [log |-> trig.log \o raw.log, ret |-> 0, out |-> Reading(t, h)]

(* ------------------------------ state --------------------------------- *)

VARIABLES
    file,           \* the kernel module this run loads
    select_device,  \* i2c_driver.c: the module parameter
    pc,             \* position of module init / exit
    adapter,        \* etx_i2c_adapter / i2c_adap: "NULL" or "adap"
    client,         \* etx_i2c_client_* / *_client: "NULL", "ERR" or "dev"
    dev,            \* the i2c core's device: "absent", "registered", "gone"
    drv,            \* the i2c core's driver: "none", "added", "deleted"
    bound,          \* whether the driver's probe has bound the device
    chr,            \* whether the character device of a channel is live
    klog,           \* calls into the i2c core, in order
    log,            \* bus transfers and sleeps, in order
    calls,          \* callbacks and requests handled, in order
    callers,        \* concurrent callers of aht20_ioctl
    data,           \* decode: the six bytes received
    reading         \* decode: the values each driver computes from them

vars == <<file, select_device, pc, adapter, client, dev, drv, bound, chr,
          klog, log, calls, callers, data, reading>>

(* ----------------------- recording of a step -------------------------- *)

\* The transfers of the callback or request now running, appended to the log.
\* A sensor read made inside a probe is recorded as a call of its own.
EmitAs(k, seq) == [i \in DOMAIN seq |-> [seq[i] EXCEPT !.call = k]]

Emit(seq) == log \o EmitAs(Len(calls) + 1, seq)

\* The record of one callback or request: what was asked, what it returned and
\* what was copied to the caller.
Call(fn, cmd, ret, out) == [fn |-> fn, cmd |-> cmd, ret |-> ret, out |-> out]

\* One call into the i2c core.
K(api, d, arg, ok) == [api |-> api, dev |-> d, arg |-> arg, ok |-> ok]

IsRequest(c) == c.fn \in {"oled_ioctl", "aht20_ioctl"}

NumRequests == Len(SelectSeq(calls, IsRequest))

Callers == 1..NumCallers

\* A caller of aht20_ioctl: where it is in the function, the outcome of its
\* transfers so far, its buffer d and the index of its record in calls.
Idle == [pc |-> "idle", trig_ok |-> TRUE, recv_ok |-> TRUE, d |-> NoBytes, call |-> 0]

Init ==
    /\ file \in Files
    /\ select_device \in (IF file = "i2c_driver" THEN {0, 1, 2, 3} ELSE {0})
    /\ pc = "init"
    /\ adapter = "NULL"
    /\ client = [d \in Devs |-> "NULL"]
    /\ dev = [d \in Devs |-> "absent"]
    /\ drv = [d \in Devs |-> "none"]
    /\ bound = [d \in Devs |-> FALSE]
    /\ chr = [d \in Devs |-> FALSE]
    /\ klog = <<>>
    /\ log = <<>>
    /\ calls = <<>>
    /\ callers = [c \in Callers |-> Idle]
    /\ data = <<>>
    /\ reading = [f \in Files |-> NoReading]

(* ------------------ i2c_driver.c: probe and remove -------------------- *)

etx_oled_probe(plan1, plan2) ==
    [log |-> SSD1306_DisplayInit(plan1) \o SSD1306_Fill(\hFF, plan2), ret |-> 0]

etx_oled_remove(plan) == [log |-> SSD1306_Fill(\h00, plan)]

\* aht20_probe: the initialisation, then one read whose values are dropped.
aht20_probe(init_ok, trig_ok, recv_ok, d) ==
    [init |-> AHT20_Init(init_ok), read |-> AHT20_ReadData(trig_ok, recv_ok, d),
     ret |-> 0]

\* The callbacks above, evaluated once for every outcome of the bus.
etx_oled_probe_on == [p1 \in FaultPlans, p2 \in FaultPlans |-> etx_oled_probe(p1, p2)]

etx_oled_remove_on == [p \in FaultPlans |-> etx_oled_remove(p)]

(* --------------------- i2c_driver.c: module init ---------------------- *)

etx_driver_init_adapter ==
    /\ file = "i2c_driver" /\ pc = "init"
    /\ \E ok \in BOOLEAN :
        /\ klog' = Append(klog, K("i2c_get_adapter", "-", "-", ok))
        /\ adapter' = IF ok THEN "adap" ELSE "NULL"
        /\ pc' = IF ok THEN "init_oled" ELSE "failed"
    /\ UNCHANGED <<file, select_device, client, dev, drv, bound, chr, log, calls,
                   callers, data, reading>>

etx_driver_init_oled ==
    /\ file = "i2c_driver" /\ pc = "init_oled"
    /\ pc' = "init_aht"
    /\ IF select_device = 0 \/ select_device = 1
       THEN \E ok \in BOOLEAN, plan1, plan2 \in FaultPlans :
              IF ~ok
              THEN /\ klog' = Append(klog, K("i2c_new_client_device", "oled", "-", FALSE))
                   /\ UNCHANGED <<client, dev, drv, bound, log, calls>>
              ELSE /\ klog' = klog \o <<K("i2c_new_client_device", "oled", "-", TRUE),
                                        K("i2c_add_driver", "oled", "-", TRUE)>>
                   /\ client' = [client EXCEPT !["oled"] = "dev"]
                   /\ dev' = [dev EXCEPT !["oled"] = "registered"]
                   /\ drv' = [drv EXCEPT !["oled"] = "added"]
                   /\ bound' = [bound EXCEPT !["oled"] = TRUE]
                   /\ log' = Emit(etx_oled_probe_on[plan1, plan2].log)
                   /\ calls' = Append(calls, Call("etx_oled_probe", "-",
                                                  etx_oled_probe_on[plan1, plan2].ret,
                                                  NoReading))
       ELSE UNCHANGED <<klog, client, dev, drv, bound, log, calls>>
    /\ UNCHANGED <<file, select_device, adapter, chr, callers, data, reading>>

etx_driver_init_aht ==
    /\ file = "i2c_driver" /\ pc = "init_aht"
    /\ pc' = "init_put"
    /\ IF select_device = 0 \/ select_device = 2
       THEN \E ok, init_ok, trig_ok, recv_ok \in BOOLEAN, d \in RawSamples :
              IF ~ok
              THEN /\ klog' = Append(klog, K("i2c_new_client_device", "aht", "-", FALSE))
                   /\ UNCHANGED <<client, dev, drv, bound, log, calls>>
              ELSE /\ klog' = klog \o <<K("i2c_new_client_device", "aht", "-", TRUE),
                                        K("i2c_add_driver", "aht", "-", TRUE)>>
                   /\ client' = [client EXCEPT !["aht"] = "dev"]
                   /\ dev' = [dev EXCEPT !["aht"] = "registered"]
                   /\ drv' = [drv EXCEPT !["aht"] = "added"]
                   /\ bound' = [bound EXCEPT !["aht"] = TRUE]
                   /\ LET p == aht20_probe(init_ok, trig_ok, recv_ok, d)
                      IN  /\ log' = log \o EmitAs(Len(calls) + 1, p.init.log)
                                        \o EmitAs(Len(calls) + 2, p.read.log)
                          /\ calls' = calls \o
                                <<Call("aht20_probe", "-", p.ret, NoReading),
                                  Call("AHT20_ReadData", "-", p.read.ret, p.read.out)>>
       ELSE UNCHANGED <<klog, client, dev, drv, bound, log, calls>>
    /\ UNCHANGED <<file, select_device, adapter, chr, callers, data, reading>>

etx_driver_init_put ==
    /\ file = "i2c_driver" /\ pc = "init_put"
    /\ klog' = Append(klog, K("i2c_put_adapter", "-", adapter, TRUE))
    /\ pc' = "loaded"
    /\ UNCHANGED <<file, select_device, adapter, client, dev, drv, bound, chr, log,
                   calls, callers, data, reading>>

(* --------------------- i2c_driver.c: module exit ---------------------- *)

\* i2c_del_driver on a driver: one never added stays "none" in the core and
\* the call is recorded with ok FALSE.
DelDriver(d) == K("i2c_del_driver", d, "-", drv[d] = "added")

etx_driver_exit_aht ==
    /\ file = "i2c_driver" /\ pc = "loaded"
    /\ pc' = "exit_oled"
    /\ IF client["aht"] # "NULL"
       THEN /\ klog' = klog \o <<K("i2c_unregister_device", "aht", client["aht"],
                                   dev["aht"] = "registered"),
                                 DelDriver("aht")>>
            /\ dev' = [dev EXCEPT !["aht"] = "gone"]
            /\ bound' = [bound EXCEPT !["aht"] = FALSE]
            /\ drv' = [drv EXCEPT !["aht"] = "deleted"]
            /\ calls' = Append(calls, Call("aht20_remove", "-", 0, NoReading))
       ELSE UNCHANGED <<klog, dev, bound, drv, calls>>
    /\ UNCHANGED <<file, select_device, adapter, client, chr, log, callers, data,
                   reading>>

etx_driver_exit_oled ==
    /\ file = "i2c_driver" /\ pc = "exit_oled"
    /\ pc' = "unloaded"
    /\ klog' = klog \o <<K("i2c_unregister_device", "oled", client["oled"],
                           dev["oled"] = "registered"),
                         DelDriver("oled")>>
    /\ drv' = [drv EXCEPT !["oled"] = IF @ = "added" THEN "deleted" ELSE @]
    /\ IF client["oled"] # "NULL"
       THEN \E plan \in FaultPlans :
              /\ dev' = [dev EXCEPT !["oled"] = "gone"]
              /\ bound' = [bound EXCEPT !["oled"] = FALSE]
              /\ log' = Emit(etx_oled_remove_on[plan].log)
              /\ calls' = Append(calls, Call("etx_oled_remove", "-", 0, NoReading))
       ELSE UNCHANGED <<dev, bound, log, calls>>
    /\ UNCHANGED <<file, select_device, adapter, client, chr, callers, data, reading>>

(* ------------------ i2c_client_driver.c: probes ----------------------- *)

oled_probe(plan) == [log |-> oled_init(plan), ret |-> 0]

aht20_probe_v2 == [log |-> <<>>, ret |-> 0]

(* ---------------- i2c_client_driver.c: module init -------------------- *)

etx_init_adapter ==
    /\ file = "i2c_client_driver" /\ pc = "init"
    /\ \E ok \in BOOLEAN :
        /\ klog' = Append(klog, K("i2c_get_adapter", "-", "-", ok))
        /\ adapter' = IF ok THEN "adap" ELSE "NULL"
        /\ pc' = IF ok THEN "init_oled" ELSE "failed"
    /\ UNCHANGED <<file, select_device, client, dev, drv, bound, chr, log, calls,
                   callers, data, reading>>

\* etx_init that goes on after a failed registration, as etx_driver_init does.
etx_init_after_keep_going(d, ok) == IF d = "oled" THEN "init_aht" ELSE "init_drivers"

\* Where etx_init goes after i2c_new_client_device for one device.
etx_init_after(d, ok) ==
    IF ~ok THEN "failed"
    ELSE IF d = "oled" THEN "init_aht" ELSE "init_drivers"

etx_init_client(d) ==
    /\ file = "i2c_client_driver"
    /\ pc = (IF d = "oled" THEN "init_oled" ELSE "init_aht")
    /\ \E ok \in BOOLEAN :
        /\ klog' = Append(klog, K("i2c_new_client_device", d, "-", ok))
        /\ client' = [client EXCEPT ![d] = IF ok THEN "dev" ELSE "ERR"]
        /\ dev' = [dev EXCEPT ![d] = IF ok THEN "registered" ELSE @]
        /\ pc' = etx_init_after(d, ok)
    /\ UNCHANGED <<file, select_device, adapter, drv, bound, chr, log, calls,
                   callers, data, reading>>

etx_init_oled == etx_init_client("oled")

etx_init_aht == etx_init_client("aht")

\* i2c_add_driver for both drivers: each probes its device when the device
\* is registered.
etx_init_drivers ==
    /\ file = "i2c_client_driver" /\ pc = "init_drivers"
    /\ pc' = "init_cdev"
    /\ klog' = klog \o <<K("i2c_add_driver", "oled", "-", TRUE),
                         K("i2c_add_driver", "aht", "-", TRUE)>>
    /\ drv' = [d \in Devs |-> "added"]
    /\ bound' = [d \in Devs |-> dev[d] = "registered"]
    /\ \E plan \in FaultPlans :
        /\ log' = IF dev["oled"] = "registered" THEN Emit(oled_probe(plan).log) ELSE log
        /\ calls' = calls
                    \o (IF dev["oled"] = "registered"
                        THEN <<Call("oled_probe", "-", oled_probe(plan).ret, NoReading)>>
                        ELSE <<>>)
                    \o (IF dev["aht"] = "registered"
                        THEN <<Call("aht20_probe", "-", aht20_probe_v2.ret, NoReading)>>
                        ELSE <<>>)
    /\ UNCHANGED <<file, select_device, adapter, client, dev, chr, callers, data,
                   reading>>

\* alloc_chrdev_region, cdev_init and cdev_add for both channels.
etx_init_cdev ==
    /\ file = "i2c_client_driver" /\ pc = "init_cdev"
    /\ pc' = "loaded"
    /\ chr' = [d \in Devs |-> TRUE]
    /\ UNCHANGED <<file, select_device, adapter, client, dev, drv, bound, klog, log,
                   calls, callers, data, reading>>

(* ------------- i2c_client_driver.c: control-plane requests ------------ *)

\* oled_ioctl, evaluated once for every request code and outcome of the bus.
oled_ioctl_on == [cmd \in Cmds, plan \in FaultPlans |-> oled_ioctl(cmd, plan)]

\* No request is in flight: the module can be unloaded and a new request
\* of the sequential model can start.
Quiet == \A c \in DOMAIN callers : callers[c].pc = "idle"

OledIoctl ==
    /\ file = "i2c_client_driver" /\ pc = "loaded" /\ chr["oled"]
    /\ Quiet /\ NumRequests < MaxOps
    /\ \E cmd \in Cmds, plan \in FaultPlans :
        /\ log' = Emit(oled_ioctl_on[cmd, plan].log)
        /\ calls' = Append(calls, Call("oled_ioctl", cmd, oled_ioctl_on[cmd, plan].ret,
                                       NoReading))
    /\ UNCHANGED <<file, select_device, pc, adapter, client, dev, drv, bound, chr,
                   klog, callers, data, reading>>

Aht20Ioctl ==
    /\ file = "i2c_client_driver" /\ pc = "loaded" /\ chr["aht"]
    /\ Quiet /\ NumRequests < MaxOps
    /\ \E cmd \in Cmds, trig_ok, recv_ok, copy_ok \in BOOLEAN, d \in RawSamples :
        LET r == aht20_ioctl(cmd, trig_ok, recv_ok, d, copy_ok)
        IN  /\ log' = Emit(r.log)
            /\ calls' = Append(calls, Call("aht20_ioctl", cmd, r.ret, r.out))
    /\ UNCHANGED <<file, select_device, pc, adapter, client, dev, drv, bound, chr,
                   klog, callers, data, reading>>

(* ---------------- i2c_client_driver.c: module exit -------------------- *)

\* cdev_del and unregister_chrdev_region for both channels.
etx_exit_cdev ==
    /\ file = "i2c_client_driver" /\ pc = "loaded" /\ Quiet
    /\ pc' = "exit_oled"
    /\ chr' = [d \in Devs |-> FALSE]
    /\ UNCHANGED <<file, select_device, adapter, client, dev, drv, bound, klog, log,
                   calls, callers, data, reading>>

etx_exit_client(d) ==
    /\ file = "i2c_client_driver"
    /\ pc = (IF d = "oled" THEN "exit_oled" ELSE "exit_aht")
    /\ pc' = (IF d = "oled" THEN "exit_aht" ELSE "exit_drivers")
    /\ klog' = Append(klog, K("i2c_unregister_device", d, client[d],
                              dev[d] = "registered"))
    /\ dev' = [dev EXCEPT ![d] = IF @ = "registered" THEN "gone" ELSE @]
    /\ bound' = [bound EXCEPT ![d] = FALSE]
    /\ UNCHANGED <<file, select_device, adapter, client, drv, chr, log, calls,
                   callers, data, reading>>

etx_exit_oled == etx_exit_client("oled")

etx_exit_aht == etx_exit_client("aht")

etx_exit_drivers ==
    /\ file = "i2c_client_driver" /\ pc = "exit_drivers"
    /\ pc' = "exit_put"
    /\ klog' = klog \o <<DelDriver("oled"), DelDriver("aht")>>
    /\ drv' = [d \in Devs |-> IF drv[d] = "added" THEN "deleted" ELSE drv[d]]
    /\ UNCHANGED <<file, select_device, adapter, client, dev, bound, chr, log, calls,
                   callers, data, reading>>

etx_exit_put ==
    /\ file = "i2c_client_driver" /\ pc = "exit_put"
    /\ pc' = "unloaded"
    /\ klog' = Append(klog, K("i2c_put_adapter", "-", adapter, TRUE))
    /\ UNCHANGED <<file, select_device, adapter, client, dev, drv, bound, chr, log,
                   calls, callers, data, reading>>

(* --------------------------- specification ---------------------------- *)

Next ==
    \/ etx_driver_init_adapter
    \/ etx_driver_init_oled
    \/ etx_driver_init_aht
    \/ etx_driver_init_put
    \/ etx_driver_exit_aht
    \/ etx_driver_exit_oled
    \/ etx_init_adapter
    \/ etx_init_oled
    \/ etx_init_aht
    \/ etx_init_drivers
    \/ etx_init_cdev
    \/ OledIoctl
    \/ Aht20Ioctl
    \/ etx_exit_cdev
    \/ etx_exit_oled
    \/ etx_exit_aht
    \/ etx_exit_drivers
    \/ etx_exit_put

Spec == Init /\ [][Next]_vars

(* ------------------------- reading the logs --------------------------- *)

\* The log entries of call k.
EntriesOf(k) == {i \in DOMAIN log : log[i].call = k}

RECURSIVE Transfers(_)
\* The number of transfers the entries S stand for.
Transfers(S) ==
    IF S = {} THEN 0
    ELSE LET i == CHOOSE j \in S : TRUE
         IN  log[i].n + Transfers(S \ {i})

\* The entries S follow one another in the log with nothing in between.
Contiguous(S) ==
    \A i \in S, j \in S : \A m \in i..j : m \in S

IsTrigger(e) == e.op = "send" /\ e.dev = "aht" /\ e.bytes = <<\hAC, \h33, \h00>>

IsRecv(e) == e.op = "recv" /\ e.dev = "aht"

IsSensorRead(c) ==
    \/ c.fn = "AHT20_ReadData"
    \/ c.fn = "aht20_ioctl" /\ c.cmd = "AHT20_READ_DATA"

KCount(api, d, ok) ==
    Cardinality({i \in DOMAIN klog :
                    klog[i].api = api /\ klog[i].dev = d /\ klog[i].ok = ok})

Released == \E i \in DOMAIN klog : klog[i].api = "i2c_put_adapter"

Attempted(d) == \E i \in DOMAIN klog :
                    klog[i].api = "i2c_new_client_device" /\ klog[i].dev = d

RegistrationFailed(d) == KCount("i2c_new_client_device", d, FALSE) > 0

\* Module init has returned, or the module has gone further.
InitReturned == pc \notin {"init", "init_oled", "init_aht", "init_put",
                           "init_drivers", "init_cdev"}

RunEnded == pc \in {"failed", "unloaded"}

Selected(d) ==
    \/ file = "i2c_client_driver"
    \/ select_device = 0
    \/ d = "oled" /\ select_device = 1
    \/ d = "aht" /\ select_device = 2

(* ------------------------------ claims -------------------------------- *)

\* C1: a sensor read (AHT20_ReadData, or aht20_ioctl with AHT20_READ_DATA)
\* whose trigger send fails attempts no receive, and one whose trigger send
\* or receive fails returns an error and delivers no reading.
C1_ReadAbortsOnFailure ==
    \A k \in DOMAIN calls :
        IsSensorRead(calls[k]) =>
            LET E == EntriesOf(k)
                trigFailed == \E i \in E : IsTrigger(log[i]) /\ ~log[i].ok
                recvFailed == \E i \in E : IsRecv(log[i]) /\ ~log[i].ok
            IN  /\ trigFailed => ~ \E i \in E : IsRecv(log[i])
                /\ (trigFailed \/ recvFailed) =>
                       (calls[k].ret < 0 /\ ~calls[k].out.set)

\* C2: while the display client or the sensor client is registered, the
\* adapter obtained by i2c_get_adapter has not been given back by
\* i2c_put_adapter.
C2_ClientWithinHandle ==
    (\E d \in Devs : dev[d] = "registered") => ~Released

\* C3: when a run has ended (init failed, or the module was unloaded), every
\* successful i2c_get_adapter is matched by exactly one i2c_put_adapter and
\* every registered client has been unregistered exactly once.
C3_NoLeakNoDoubleRelease ==
    RunEnded =>
        /\ KCount("i2c_get_adapter", "-", TRUE) = KCount("i2c_put_adapter", "-", TRUE)
        /\ \A d \in Devs :
              /\ KCount("i2c_new_client_device", d, TRUE)
                     = KCount("i2c_unregister_device", d, TRUE)
              /\ dev[d] # "registered"

\* C4: once module init has returned, a failed display registration has not
\* kept the selected sensor from being registered, and a failed sensor
\* registration leaves a registered display registered and init successful.
C4_IndependentRegistration ==
    (InitReturned /\ adapter = "adap") =>
        /\ (RegistrationFailed("oled") /\ Selected("aht")) => Attempted("aht")
        /\ (RegistrationFailed("aht")
               /\ KCount("i2c_new_client_device", "oled", TRUE) > 0
               /\ pc \in {"loaded", "failed"}) =>
                  (pc = "loaded" /\ dev["oled"] = "registered")

\* C5: a request with a code the channel does not know (oled_ioctl with
\* anything but OLED_CLEAR and OLED_FILL, aht20_ioctl with anything but
\* AHT20_READ_DATA) returns -EINVAL, issues no transfer, does not sleep and
\* copies nothing to the caller.
C5_UnknownRequestRejected ==
    \A k \in DOMAIN calls :
        (\/ calls[k].fn = "oled_ioctl" /\ calls[k].cmd \notin {"OLED_CLEAR", "OLED_FILL"}
         \/ calls[k].fn = "aht20_ioctl" /\ calls[k].cmd # "AHT20_READ_DATA") =>
            /\ calls[k].ret = -EINVAL
            /\ EntriesOf(k) = {}
            /\ ~calls[k].out.set

\* C5 witness: both channels have rejected a request, the display channel
\* one that carried the sensor's code.
C5_Witness ==
    /\ \E k \in DOMAIN calls :
          calls[k].fn = "oled_ioctl" /\ calls[k].cmd = "AHT20_READ_DATA"
    /\ \E k \in DOMAIN calls :
          calls[k].fn = "aht20_ioctl" /\ calls[k].cmd = "UNKNOWN"

\* C6: aht20_ioctl sends a trigger or receives bytes only while the sensor
\* client is set and registered.
C6_NoTransferUnbound ==
    [][(\E i \in DOMAIN log' :
            /\ i > Len(log)
            /\ log'[i].dev = "aht"
            /\ log'[i].fn \in {"aht20_trigger", "aht20_read_raw"})
        => (client["aht"] = "dev" /\ dev["aht"] = "registered")]_vars

\* C6 witness: a ReadData request has sent its trigger and read its bytes.
C6_Witness ==
    \E k \in DOMAIN calls :
        /\ calls[k].fn = "aht20_ioctl"
        /\ \E i \in EntriesOf(k) : IsTrigger(log[i])
        /\ \E i \in EntriesOf(k) : IsRecv(log[i])

IsFillCall(c) ==
    \/ c.fn \in {"etx_oled_probe", "etx_oled_remove"}
    \/ c.fn = "oled_ioctl" /\ c.cmd \in {"OLED_CLEAR", "OLED_FILL"}

\* The pattern the fill of call c is made with.
FillPattern(c) ==
    IF c.fn = "etx_oled_probe" \/ (c.fn = "oled_ioctl" /\ c.cmd = "OLED_FILL")
    THEN \hFF ELSE \h00

FillEntries(k) ==
    {i \in EntriesOf(k) : log[i].fn \in {"SSD1306_Fill", "oled_fill", "oled_clear"}}

\* C8: every call of SSD1306_Fill, oled_fill and oled_clear sends exactly
\* 1024 transfers of two bytes, the control byte 0x40 and the pattern, one
\* after the other with no other transfer in between, whichever of them fail.
C8_FillSends1024 ==
    \A k \in DOMAIN calls :
        IsFillCall(calls[k]) =>
            LET F == FillEntries(k)
            IN  /\ F # {}
                /\ Contiguous(F)
                /\ Transfers(F) = 1024
                /\ \A i \in F :
                      /\ log[i].op = "send"
                      /\ log[i].dev = "oled"
                      /\ log[i].bytes = <<\h40, FillPattern(calls[k])>>

\* C8 witness: fills have run with both patterns, one of them with a failed
\* transfer in the middle of the others.
C8_Witness ==
    /\ \E k \in DOMAIN calls :
          /\ calls[k].fn = "oled_ioctl" /\ calls[k].cmd = "OLED_CLEAR"
          /\ \E i \in FillEntries(k) : ~log[i].ok
          /\ \E i \in FillEntries(k) : log[i].ok
    /\ \E k \in DOMAIN calls :
          calls[k].fn = "oled_ioctl" /\ calls[k].cmd = "OLED_FILL"

\* C9: an OLED_FILL request followed by an OLED_CLEAR request puts exactly
\* two fills on the bus, 1024 transfers of 0xFF and then 1024 transfers of
\* 0x00, and both requests return 0.
C9_FillThenClear ==
    \A k \in DOMAIN calls :
        (/\ k + 1 \in DOMAIN calls
         /\ calls[k].fn = "oled_ioctl" /\ calls[k].cmd = "OLED_FILL"
         /\ calls[k + 1].fn = "oled_ioctl" /\ calls[k + 1].cmd = "OLED_CLEAR") =>
            LET E1 == EntriesOf(k)
                E2 == EntriesOf(k + 1)
            IN  /\ calls[k].ret = 0 /\ calls[k + 1].ret = 0
                /\ Transfers(E1) = 1024 /\ Transfers(E2) = 1024
                /\ \A i \in E1 : log[i].op = "send" /\ log[i].bytes = <<\h40, \hFF>>
                /\ \A i \in E2 : log[i].op = "send" /\ log[i].bytes = <<\h40, \h00>>
                /\ \A i \in E1, j \in E2 : i < j
                /\ Contiguous(E1 \cup E2)

\* C9 witness: OLED_FILL and then OLED_CLEAR have been requested and served.
C9_Witness ==
    \E k \in DOMAIN calls :
        /\ k + 1 \in DOMAIN calls
        /\ calls[k].fn = "oled_ioctl" /\ calls[k].cmd = "OLED_FILL"
        /\ calls[k + 1].fn = "oled_ioctl" /\ calls[k + 1].cmd = "OLED_CLEAR"
        /\ EntriesOf(k + 1) # {}

(* ------- i2c_client_driver.c: aht20_ioctl called concurrently --------- *)

\* aht20_fops sets unlocked_ioctl and the driver holds no lock: a second
\* caller may enter aht20_ioctl while the first is between two of its
\* transfers.  A step is one transfer, one sleep or the final copy; the i2c
\* core serialises single transfers only.

AppendAs(k, seq) == log \o EmitAs(k, seq)

\* Lines 125-126: the request code is checked on entry.
aht20_ioctl_enter(c) ==
    /\ file = "i2c_client_driver" /\ pc = "loaded" /\ chr["aht"]
    /\ callers[c].pc = "idle" /\ NumRequests < MaxOps
    /\ \E cmd \in Cmds :
        IF cmd # "AHT20_READ_DATA"
        THEN /\ calls' = Append(calls,
                    Call("aht20_ioctl", cmd,
                         aht20_ioctl(cmd, TRUE, TRUE, NoBytes, TRUE).ret, NoReading))
             /\ UNCHANGED callers
        ELSE /\ calls' = Append(calls, Call("aht20_ioctl", cmd, 0, NoReading))
             /\ callers' = [callers EXCEPT ![c] =
                               [Idle EXCEPT !.pc = "trigger", !.call = Len(calls) + 1]]
    /\ UNCHANGED <<file, select_device, pc, adapter, client, dev, drv, bound, chr,
                   klog, log, data, reading>>

\* Line 128: aht20_trigger().
aht20_ioctl_trigger(c) ==
    /\ callers[c].pc = "trigger"
    /\ \E ok \in BOOLEAN :
        /\ log' = AppendAs(callers[c].call, aht20_trigger(ok).log)
        /\ callers' = [callers EXCEPT ![c].pc = "sleep", ![c].trig_ok = ok]
    /\ UNCHANGED <<file, select_device, pc, adapter, client, dev, drv, bound, chr,
                   klog, calls, data, reading>>

\* Line 111: the msleep(80) of aht20_read_raw.
aht20_ioctl_sleep(c) ==
    /\ callers[c].pc = "sleep"
    /\ \E d \in RawSamples :
        log' = AppendAs(callers[c].call, SubSeq(aht20_read_raw(TRUE, d).log, 1, 1))
    /\ callers' = [callers EXCEPT ![c].pc = "recv"]
    /\ UNCHANGED <<file, select_device, pc, adapter, client, dev, drv, bound, chr,
                   klog, calls, data, reading>>

\* Line 112: the i2c_master_recv of aht20_read_raw.
aht20_ioctl_recv(c) ==
    /\ callers[c].pc = "recv"
    /\ \E ok \in BOOLEAN, d \in RawSamples :
        /\ log' = AppendAs(callers[c].call, SubSeq(aht20_read_raw(ok, d).log, 2, 2))
        /\ callers' = [callers EXCEPT ![c].pc = "copy", ![c].recv_ok = ok, ![c].d = d]
    /\ UNCHANGED <<file, select_device, pc, adapter, client, dev, drv, bound, chr,
                   klog, calls, data, reading>>

\* Lines 114-137: decode, copy_to_user and return.
aht20_ioctl_return(c) ==
    /\ callers[c].pc = "copy"
    /\ \E copy_ok \in BOOLEAN :
        LET r == aht20_ioctl("AHT20_READ_DATA", callers[c].trig_ok, callers[c].recv_ok,
                             callers[c].d, copy_ok)
        IN  calls' = [calls EXCEPT ![callers[c].call].ret = r.ret,
                                   ![callers[c].call].out = r.out]
    /\ callers' = [callers EXCEPT ![c] = Idle]
    /\ UNCHANGED <<file, select_device, pc, adapter, client, dev, drv, bound, chr,
                   klog, log, data, reading>>

\* The state etx_init leaves when every registration and transfer succeeded:
\* both channels are live and no request has been made.
InitConc ==
    /\ file = "i2c_client_driver"
    /\ select_device = 0
    /\ pc = "loaded"
    /\ adapter = "adap"
    /\ client = [d \in Devs |-> "dev"]
    /\ dev = [d \in Devs |-> "registered"]
    /\ drv = [d \in Devs |-> "added"]
    /\ bound = [d \in Devs |-> TRUE]
    /\ chr = [d \in Devs |-> TRUE]
    /\ klog = <<K("i2c_get_adapter", "-", "-", TRUE),
                K("i2c_new_client_device", "oled", "-", TRUE),
                K("i2c_new_client_device", "aht", "-", TRUE),
                K("i2c_add_driver", "oled", "-", TRUE),
                K("i2c_add_driver", "aht", "-", TRUE)>>
    /\ log = EmitAs(1, oled_probe("none").log)
    /\ calls = <<Call("oled_probe", "-", oled_probe("none").ret, NoReading),
                 Call("aht20_probe", "-", aht20_probe_v2.ret, NoReading)>>
    /\ callers = [c \in Callers |-> Idle]
    /\ data = <<>>
    /\ reading = [f \in Files |-> NoReading]

NextConc ==
    \/ \E c \in Callers : aht20_ioctl_enter(c)
    \/ \E c \in Callers : aht20_ioctl_trigger(c)
    \/ \E c \in Callers : aht20_ioctl_sleep(c)
    \/ \E c \in Callers : aht20_ioctl_recv(c)
    \/ \E c \in Callers : aht20_ioctl_return(c)

SpecConc == InitConc /\ [][NextConc]_vars

\* C7: the transfers of one request on a channel are not interleaved with
\* those of another request on the same channel: between two transfers of a
\* request, every transfer on the same device belongs to that request.
C7_OneRequestAtATime ==
    \A k \in DOMAIN calls :
        IsRequest(calls[k]) =>
            \A i \in EntriesOf(k), j \in EntriesOf(k) :
                \A m \in i..j :
                    (log[m].op \in {"send", "recv"} /\ log[i].dev = log[m].dev)
                        => log[m].call = k

(* ------------------------------ decode -------------------------------- *)

\* The receive buffers the decode is checked on: the status byte, three
\* bytes that carry the humidity and the shared nibble, two low bytes.
DecodeInputs ==
    {<<b0, b1, b2, b3, b4, b5>> :
        b0 \in {\h00, \hFF}, b1 \in ByteSamples, b2 \in ByteSamples,
        b3 \in ByteSamples, b4 \in {\h00, \h66, \hFF}, b5 \in {\h00, \h66, \hFF}}

InitDecode ==
    /\ file \in Files
    /\ select_device = 0
    /\ pc = "init"
    /\ adapter = "NULL"
    /\ client = [d \in Devs |-> "NULL"]
    /\ dev = [d \in Devs |-> "absent"]
    /\ drv = [d \in Devs |-> "none"]
    /\ bound = [d \in Devs |-> FALSE]
    /\ chr = [d \in Devs |-> FALSE]
    /\ klog = <<>>
    /\ log = <<>>
    /\ calls = <<>>
    /\ callers = [c \in Callers |-> Idle]
    /\ data \in DecodeInputs
    /\ reading = [f \in Files |-> NoReading]

\* i2c_driver.c lines 154-158 applied to the buffer.
AHT20_ReadData_decode ==
    /\ ~reading["i2c_driver"].set
    /\ reading' = [reading EXCEPT !["i2c_driver"] =
                      AHT20_ReadData(TRUE, TRUE, data).out]
    /\ UNCHANGED <<file, select_device, pc, adapter, client, dev, drv, bound, chr,
                   klog, log, calls, callers, data>>

\* i2c_client_driver.c lines 114-115 and 131-132 applied to the buffer.
aht20_ioctl_decode ==
    /\ ~reading["i2c_client_driver"].set
    /\ reading' = [reading EXCEPT !["i2c_client_driver"] =
                      aht20_ioctl("AHT20_READ_DATA", TRUE, TRUE, data, TRUE).out]
    /\ UNCHANGED <<file, select_device, pc, adapter, client, dev, drv, bound, chr,
                   klog, log, calls, callers, data>>

NextDecode == AHT20_ReadData_decode \/ aht20_ioctl_decode

SpecDecode == InitDecode /\ [][NextDecode]_vars

\* The fields and values of the claim, in plain integer arithmetic.
RawHumidityOf(d) == At(d, 1) * 4096 + At(d, 2) * 16 + At(d, 3) \div 16

RawTemperatureOf(d) == (At(d, 3) % 16) * 65536 + At(d, 4) * 256 + At(d, 5)

HumidityOf(d) == (RawHumidityOf(d) * 1000) \div 1048576

TemperatureOf(d) == (RawTemperatureOf(d) * 2000) \div 1048576 - 500

\* C10: for every buffer, both drivers compute humidity =
\* floor(raw_humidity * 1000 / 2^20) and temperature =
\* floor(raw_temperature * 2000 / 2^20) - 500 from bytes 1..5 alone, they
\* agree, and [0x00, 0x19, 0x99, 0x9A, 0x66, 0x66] gives 99 and 799.
C10_DecodeFormula ==
    /\ \A f \in Files :
          reading[f].set =>
              /\ reading[f].humidity = HumidityOf(data)
              /\ reading[f].temperature = TemperatureOf(data)
    /\ (reading["i2c_driver"].set /\ reading["i2c_client_driver"].set) =>
          reading["i2c_driver"] = reading["i2c_client_driver"]
    /\ \A f \in Files :
          (reading[f].set /\ data = <<\h00, \h19, \h99, \h9A, \h66, \h66>>) =>
              (reading[f].humidity = 99 /\ reading[f].temperature = 799)

\* C10 witness: both drivers have decoded [0x00, 0x19, 0x99, 0x9A, 0x66, 0x66].
C10_Witness ==
    /\ data = <<\h00, \h19, \h99, \h9A, \h66, \h66>>
    /\ reading["i2c_driver"].set
    /\ reading["i2c_client_driver"].set

\* The u32 product u * k is the product of the integers: its upper half
\* needs no reduction modulo 2^16.
NoWrap(u, k) == u.hi * k + (u.lo * k) \div 65536 < 65536

Fits20(u) == u.hi < 16

\* C11: every decoded humidity lies in 0..999 and every decoded temperature
\* in -500..1499; the raw fields both drivers assemble fit in 20 bits and
\* their u32 products with 1000 and 2000 do not wrap modulo 2^32.
C11_DecodeRanges ==
    /\ \A f \in Files :
          reading[f].set =>
              /\ 0 <= reading[f].humidity /\ reading[f].humidity < 1000
              /\ -500 <= reading[f].temperature /\ reading[f].temperature < 1500
    /\ reading["i2c_driver"].set =>
          /\ Fits20(AHT20_raw_humidity(data)) /\ Fits20(AHT20_raw_temperature(data))
          /\ NoWrap(AHT20_raw_humidity(data), 1000)
          /\ NoWrap(AHT20_raw_temperature(data), 2000)
    /\ reading["i2c_client_driver"].set =>
          /\ Fits20(aht20_read_raw_h(data)) /\ Fits20(aht20_read_raw_t(data))
          /\ NoWrap(aht20_read_raw_h(data), 1000)
          /\ NoWrap(aht20_read_raw_t(data), 2000)

\* C11 witness: both drivers have decoded the largest raw fields, which give
\* the largest humidity and temperature.
C11_Witness ==
    /\ RawHumidityOf(data) = 1048575 /\ RawTemperatureOf(data) = 1048575
    /\ \A f \in Files :
          /\ reading[f].set
          /\ reading[f].humidity = 999 /\ reading[f].temperature = 1499

IsCommand(e) ==
    e.op = "send" /\ e.dev = "oled" /\ Len(e.bytes) = 2 /\ e.bytes[1] = \h00

IsData(e) ==
    e.op = "send" /\ e.dev = "oled" /\ Len(e.bytes) = 2 /\ e.bytes[1] = \h40

IsDisplayBind(c) == c.fn \in {"etx_oled_probe", "oled_probe"}

\* The commands the display initialisation of call k has sent.
InitCommands(k) ==
    {i \in EntriesOf(k) :
        log[i].fn \in {"SSD1306_DisplayInit", "oled_init"} /\ IsCommand(log[i])}

DataWrites(k) == {i \in EntriesOf(k) : IsData(log[i])}

\* C12: every bind of the display (etx_oled_probe, oled_probe) sends the
\* initialisation commands, from 0xAE to 0xAF, and after the last of them
\* exactly 1024 data writes of 0xFF; no data write comes before a command.
C12_BindInitThenFill ==
    \A k \in DOMAIN calls :
        IsDisplayBind(calls[k]) =>
            LET I == InitCommands(k)
                F == DataWrites(k)
            IN  /\ I # {}
                /\ \E i \in I : log[i].bytes[2] = \hAE /\ \A j \in I : i <= j
                /\ \E i \in I : log[i].bytes[2] = \hAF /\ \A j \in I : j <= i
                /\ Transfers(F) = 1024
                /\ \A j \in F : log[j].bytes = <<\h40, \hFF>>
                /\ \A i \in I, j \in F : i < j

\* C13: once the display client has been unregistered, its unbind hook has
\* issued exactly 1024 data writes of 0x00, and these are the last transfers
\* to the display of the run.
C13_UnbindClears ==
    dev["oled"] = "gone" =>
        \E k \in DOMAIN calls :
            LET F == DataWrites(k)
            IN  /\ calls[k].fn = "etx_oled_remove"
                /\ Transfers(F) = 1024
                /\ \A j \in F : log[j].bytes = <<\h40, \h00>>
                /\ \A i \in DOMAIN log :
                      (log[i].dev = "oled" /\ i \notin F) => \A j \in F : i < j

IsInitCommand(e) ==
    e.op = "send" /\ e.dev = "aht" /\ e.bytes = <<\hBE, \h08, \h00>>

\* C14: every bind of the sensor (aht20_probe) sends the initialisation
\* command {0xBE, 0x08, 0x00} exactly once, waits 40 ms right after it, and
\* returns 0 whether the transfers succeed or fail.
C14_SensorBindBestEffort ==
    \A k \in DOMAIN calls :
        calls[k].fn = "aht20_probe" =>
            /\ calls[k].ret = 0
            /\ \E i \in EntriesOf(k) :
                  /\ IsInitCommand(log[i]) /\ log[i].n = 1
                  /\ i + 1 \in EntriesOf(k)
                  /\ log[i + 1].op = "msleep" /\ log[i + 1].ms = 40
                  /\ \A j \in EntriesOf(k) : log[j].op = "send" => j = i

RECURSIVE CommandBytes(_)
\* The command bytes of the entries s, one for each transfer.
CommandBytes(s) ==
    IF s = <<>> THEN <<>>
    ELSE [i \in 1..Head(s).n |-> Head(s).bytes[2]] \o CommandBytes(Tail(s))

\* The entries the display initialisation of call k has written, in order.
InitEntries(k) ==
    SelectSeq(log, LAMBDA e : e.call = k /\ e.fn \in {"SSD1306_DisplayInit", "oled_init"})

\* The command bytes the display initialisation of call k has sent, in order.
InitBytes(k) ==
    CommandBytes(SelectSeq(InitEntries(k), IsCommand))

\* The bytes a, b follow one another at position i of c.
PairAt(c, i, a, b) == i + 1 <= Len(c) /\ c[i] = a /\ c[i + 1] = b

\* C15: every display initialisation sends multiplexer ratio (A8 3F), then
\* clock divider (D5 80), then charge pump (8D 14), then segment remap (A1)
\* and COM scan direction (C8), then contrast (81 80), and display-on (AF)
\* last, in both drivers.
C15_InitOrder ==
    \A k \in DOMAIN calls :
        IsDisplayBind(calls[k]) =>
            LET c == InitBytes(k)
            IN  \E a \in DOMAIN c :
                  /\ PairAt(c, a, \hA8, \h3F)
                  /\ \E b \in DOMAIN c :
                      /\ b > a + 1 /\ PairAt(c, b, \hD5, \h80)
                      /\ \E p \in DOMAIN c :
                          /\ p > b + 1 /\ PairAt(c, p, \h8D, \h14)
                          /\ \E q \in DOMAIN c :
                              /\ q > p + 1 /\ c[q] = \hA1
                              /\ \E r \in DOMAIN c :
                                  /\ r > q /\ c[r] = \hC8
                                  /\ \E t \in DOMAIN c :
                                      /\ t > r /\ PairAt(c, t, \h81, \h80)
                                      /\ t + 1 < Len(c)
                                      /\ c[Len(c)] = \hAF

\* C16: every display initialisation sends the same list of command
\* transfers, 26 in SSD1306_DisplayInit and 4 in oled_init, the first 0xAE and
\* the last 0xAF, whichever of the transfers fail, and sends no data write.
C16_InitFixedSequence ==
    \A k \in DOMAIN calls :
        IsDisplayBind(calls[k]) =>
            LET E == InitEntries(k)
                c == InitBytes(k)
            IN  /\ \A i \in DOMAIN E : E[i].op = "send" => IsCommand(E[i])
                /\ c = IF calls[k].fn = "etx_oled_probe"
                       THEN <<\hAE, \hD5, \h80, \hA8, \h3F, \hD3, \h00, \h40,
                              \h8D, \h14, \h20, \h00, \hA1, \hC8, \hDA, \h12,
                              \h81, \h80, \hD9, \hF1, \hDB, \h20, \hA4, \hA6,
                              \h2E, \hAF>>
                       ELSE <<\hAE, \hA8, \h3F, \hAF>>
                /\ c[1] = \hAE /\ c[Len(c)] = \hAF

\* C16 witness: SSD1306_DisplayInit has run with its first write failing and
\* the others succeeding.
C16_Witness ==
    \E k \in DOMAIN calls :
        /\ calls[k].fn = "etx_oled_probe"
        /\ \E i \in DOMAIN InitEntries(k) :
              /\ IsCommand(InitEntries(k)[i]) /\ ~InitEntries(k)[i].ok
              /\ InitEntries(k)[i].bytes[2] = \hAE
        /\ \E i \in DOMAIN InitEntries(k) :
              /\ IsCommand(InitEntries(k)[i]) /\ InitEntries(k)[i].ok
              /\ InitEntries(k)[i].bytes[2] = \hAF

\* C17: every display initialisation starts with a wait of 100 ms, before
\* which no command is sent; and every receive from the sensor comes right
\* after a wait of 80 ms that comes right after a successful trigger send of
\* the same call, with no other transfer in between.
C17_SettleDelays ==
    /\ \A k \in DOMAIN calls :
          IsDisplayBind(calls[k]) =>
              /\ InitEntries(k) # <<>>
              /\ InitEntries(k)[1].op = "msleep" /\ InitEntries(k)[1].ms = 100
    /\ \A i \in DOMAIN log :
          IsCommand(log[i]) =>
              \E j \in 1..(i - 1) :
                  /\ log[j].call = log[i].call
                  /\ log[j].op = "msleep" /\ log[j].ms = 100
    /\ \A i \in DOMAIN log :
          IsRecv(log[i]) =>
              /\ i > 2
              /\ log[i - 1].op = "msleep" /\ log[i - 1].ms = 80
              /\ log[i - 1].call = log[i].call
              /\ IsTrigger(log[i - 2]) /\ log[i - 2].ok /\ log[i - 2].n = 1
              /\ log[i - 2].call = log[i].call

\* C18: a Display Clear or Fill request in which a send fails returns an
\* error to its caller, and no transfer is sent again: the request puts at
\* most 1024 transfers on the bus.
C18_FailureReturned ==
    \A k \in DOMAIN calls :
        (calls[k].fn = "oled_ioctl" /\ calls[k].cmd \in {"OLED_CLEAR", "OLED_FILL"}) =>
            /\ (\E i \in EntriesOf(k) : ~log[i].ok) => calls[k].ret < 0
            /\ Transfers(EntriesOf(k)) <= 1024

IsCreate(e) == e.api = "i2c_new_client_device" /\ e.ok

IsDestroy(e) == e.api = "i2c_unregister_device" /\ e.ok

\* C19: the clients are unregistered in the reverse of the order they were
\* created in: of two clients, the one created later is unregistered first.
C19_ReverseOrder ==
    \A i \in DOMAIN klog, j \in DOMAIN klog :
        (i < j /\ IsDestroy(klog[i]) /\ IsDestroy(klog[j])) =>
            \E a \in DOMAIN klog, b \in DOMAIN klog :
                /\ IsCreate(klog[a]) /\ klog[a].dev = klog[i].dev
                /\ IsCreate(klog[b]) /\ klog[b].dev = klog[j].dev
                /\ b < a

\* C20: in i2c_driver.c, for every select_device and every outcome of the
\* registrations, etx_driver_exit unregisters a client only if it was
\* registered and deletes a driver only if etx_driver_init added it, and
\* etx_driver_init registers the selected devices and no others.
C20_ExitUndoesInit ==
    file = "i2c_driver" =>
        /\ \A i \in DOMAIN klog :
              klog[i].api = "i2c_del_driver" =>
                  \E j \in 1..(i - 1) :
                      klog[j].api = "i2c_add_driver" /\ klog[j].dev = klog[i].dev
        /\ \A i \in DOMAIN klog :
              (klog[i].api = "i2c_unregister_device" /\ klog[i].arg # "NULL") =>
                  \E j \in 1..(i - 1) :
                      IsCreate(klog[j]) /\ klog[j].dev = klog[i].dev
        /\ \A d \in Devs :
              /\ Attempted(d) => Selected(d)
              /\ (pc \in {"loaded", "exit_oled", "unloaded"} /\ Selected(d))
                     => Attempted(d)

====
